---- MODULE Spec2Model ----
(***************************************************************************)
(* A model of source/UIAHandler/_remoteOps/highLevel.py: the               *)
(* RemoteOperationBuilder, its typed operand wrappers and the conditional  *)
(* block scope builder.                                                    *)
(*                                                                         *)
(* Instruction indexes are 0-based as in the Python code; the i-th         *)
(* instruction of a stream s is s[i + 1].  The source-location string of   *)
(* an instruction record is diagnostic text only and is left out.          *)
(***************************************************************************)
EXTENDS Integers, Sequences, FiniteSets, TLC

VARIABLES
    instructions,           \* RemoteOperationBuilder._instructions
    operandIdGen,           \* next value of RemoteOperationBuilder._operandIdGen
    scopeStack,             \* RemoteOperationBuilder._scopeStack (block numbers)
    results,                \* RemoteOperationBuilder._results
    supportedOpcodesCache,  \* RemoteOperationBuilder._supportedOpcodesCache
    loggingEnabled,         \* RemoteOperationBuilder._loggingEnablede
    log,                    \* operand id of RemoteOperationBuilder._log (0: no such attribute)
    ro,                     \* RemoteOperationBuilder._ro, the Adapter
    blocks,                 \* the _RemoteIfBlockBuilder objects created so far
    handles,                \* the remote value wrappers the caller holds
    last                    \* the last call made by the caller and its outcome

vars == <<instructions, operandIdGen, scopeStack, results, supportedOpcodesCache,
          loggingEnabled, log, ro, blocks, handles, last>>

---------------------------------------------------------------------------
(* Bounds of the model.                                                    *)

\* A caller's build call is made only while the stream is shorter than this.
MaxInstructions == 5

\* Operand ids handed out by this builder.
MaxOperands == 2

\* Conditional blocks a caller opens.
MaxBlocks == 2

\* Calls of the Adapter's execute.
MaxExecutes == 1

---------------------------------------------------------------------------
(* ctypes parameters.  A parameter is a typed cell; a c_wchar array holds  *)
(* its text in s (without the terminator ctypes adds).                     *)

c_long(x) == [t |-> "c_long", v |-> x, s |-> <<>>]

c_ulong(x) == [t |-> "c_ulong", v |-> x, s |-> <<>>]

c_ushort(x) == [t |-> "c_ushort", v |-> x, s |-> <<>>]

c_byte(x) == [t |-> "c_byte", v |-> x, s |-> <<>>]

create_unicode_buffer(text) == [t |-> "c_wchar_array", v |-> 0, s |-> text]

BoolToInt(b) == IF b THEN 1 ELSE 0

\* _InstructionRecord(instructionType, params, locationString)
InstructionRecord(opcode, params) == [op |-> opcode, params |-> params]

\* lowLevel.RemoteOperationStatus
Statuses == {"Success", "MalformedBytecode", "InstructionLimitExceeded",
             "UnhandledException", "ExecutionFailure"}

\* Opcodes that initialise the operand named by their first parameter.
NewOpcodes == {"NewInt", "NewBool", "NewString", "NewNull", "NewGuid"}

---------------------------------------------------------------------------
(* The builder's emission helpers.  A helper takes and returns the part of *)
(* the builder a call threads through: the instruction list, the opcode    *)
(* cache, the operand id generator, the exception being raised (err) and   *)
(* the value returned (ret).  Once err is set the rest of the call is      *)
(* skipped, as a propagating exception does.  alloc lists, in order, the   *)
(* ids the call has taken from the generator.                              *)

Thread == [ins |-> instructions, cache |-> supportedOpcodesCache,
           gen |-> operandIdGen, err |-> "none", ret |-> -1, alloc |-> <<>>]

\* The outcome of the capability probe for an opcode not yet cached.
ProbeOpcode(opcode) == TRUE

isOpcodeSupported(cache, opcode) ==
    IF opcode \in cache
    THEN [result |-> TRUE, cache |-> cache]
    ELSE LET result == ProbeOpcode(opcode)
         IN  [result |-> result,
              cache |-> IF result THEN cache \cup {opcode} ELSE cache]

addInstruction(th, opcode, params) ==
    IF th.err # "none" THEN th
    ELSE LET sup == isOpcodeSupported(th.cache, opcode)
         IN  IF ~sup.result
             THEN [th EXCEPT !.cache = sup.cache,
                             !.err = "UnsupportedOpcodeException"]
             ELSE [th EXCEPT !.cache = sup.cache,
                             !.ins = Append(th.ins, InstructionRecord(opcode, params)),
                             !.ret = Len(th.ins)]

\* A generator that hands out the id it handed out before.
getNewOperandId_Repeats(th) ==
    IF th.err # "none" THEN th
    ELSE [th EXCEPT !.ret = th.gen, !.alloc = Append(th.alloc, th.gen)]

\* next(self._operandIdGen): the id is th.gen, the generator moves on.
getNewOperandId(th) ==
    IF th.err # "none" THEN th
    ELSE [th EXCEPT !.gen = th.gen + 1, !.ret = th.gen,
                    !.alloc = Append(th.alloc, th.gen)]

lastInstructionIndex(ins) == Len(ins) - 1

getInstructionRecord(ins, instructionIndex) == ins[instructionIndex + 1]

\* Mutant of SetParamValue: the first parameter is the one that is set.
SetParamValue_FirstParam(ins, instructionIndex, k, x) ==
    [ins EXCEPT ![instructionIndex + 1].params[1].v = x]

\* record.params[k].value = x, with k 0-based
SetParamValue(ins, instructionIndex, k, x) ==
    [ins EXCEPT ![instructionIndex + 1].params[k + 1].v = x]

---------------------------------------------------------------------------
(* Construction.                                                           *)

\* No instruction record.
NoRecord == [op |-> "", params |-> <<>>]

NoResults == [set |-> FALSE, status |-> "none", errorLocation |-> -1, table |-> {}]

\* lowLevel.RemoteOperation(), as far as the builder uses it: the operands
\* imported and marked for results, the calls of execute and the instruction
\* list encoded for the last one.
NewRemoteOperation == [imported |-> {}, requested |-> {}, execCalls |-> 0,
                       submitted |-> <<>>]

Handle(cls, operandId) == [cls |-> cls, id |-> operandId, own |-> TRUE]

\* A wrapper that belongs to another builder.
ForeignHandle(cls, operandId) == [cls |-> cls, id |-> operandId, own |-> FALSE]

\* RemoteString._new(rob, ""): the id, then NewString(id, "")
NewLogString(th) ==
    LET th1 == getNewOperandId(th)
    IN  [addInstruction(th1, "NewString",
                        <<c_long(th1.ret), create_unicode_buffer(<<>>)>>)
            EXCEPT !.ret = th1.ret]

InitWith(enableLogging) ==
    LET th0 == [ins |-> <<>>, cache |-> {}, gen |-> 1, err |-> "none", ret |-> -1,
                alloc |-> <<>>]
        th  == IF enableLogging THEN NewLogString(th0) ELSE th0
    IN  /\ instructions = th.ins
        /\ operandIdGen = th.gen
        /\ scopeStack = <<>>
        /\ results = NoResults
        /\ supportedOpcodesCache = th.cache
        /\ loggingEnabled = enableLogging
        /\ log = IF enableLogging THEN th.ret ELSE 0
        /\ ro = IF enableLogging
                THEN [NewRemoteOperation EXCEPT !.requested = {th.ret}]
                ELSE NewRemoteOperation
        /\ blocks = <<>>
        /\ handles = {}
        /\ last = [op |-> "__init__", arg |-> -1, err |-> "none", ret |-> -1,
                    alloc |-> th.alloc, cls |-> "", record |-> NoRecord]

Init == \E enableLogging \in BOOLEAN : InitWith(enableLogging)

---------------------------------------------------------------------------
(* What a call leaves behind.                                              *)

\* The outcome of a call: its name and argument, the exception it raised,
\* the value it returned, the operand ids it allocated, the class it was
\* given and the instruction record an error message describes.
Outcome(opname, arg, err, ret) ==
    [op |-> opname, arg |-> arg, err |-> err, ret |-> ret,
     alloc |-> <<>>, cls |-> "", record |-> NoRecord]

\* The builder fields a threaded call has changed, and its outcome; cls is
\* the class, or the kind of argument, the call was given.
CommitWith(th, opname, arg, cls) ==
    /\ instructions' = th.ins
    /\ supportedOpcodesCache' = th.cache
    /\ operandIdGen' = th.gen
    /\ last' = [Outcome(opname, arg, th.err, th.ret)
                   EXCEPT !.alloc = th.alloc, !.cls = cls]

Commit(th, opname, arg) == CommitWith(th, opname, arg, "")

\* The caller keeps the wrapper a call returned.
Keep(th, cls) ==
    handles' = IF th.err = "none" THEN handles \cup {Handle(cls, th.ret)} ELSE handles

\* Bounds on what a caller asks for.
CanEmit == Len(instructions) < MaxInstructions

CanAllocate == operandIdGen <= MaxOperands

---------------------------------------------------------------------------
(* Factories.                                                              *)

\* _RemoteIntegral._initOperand
IntegralInitOperand(th, newInstruction, operandId, cell) ==
    addInstruction(th, newInstruction, <<c_long(operandId), cell>>)

\* RemoteInt._new(rob, initialValue)
NewIntOperand(th, initialValue) ==
    LET th1 == getNewOperandId(th)
    IN  [IntegralInitOperand(th1, "NewInt", th1.ret, c_long(initialValue))
            EXCEPT !.ret = th1.ret]

\* RemoteBool._new(rob, initialValue)
NewBoolOperand(th, initialValue) ==
    LET th1 == getNewOperandId(th)
    IN  [IntegralInitOperand(th1, "NewBool", th1.ret, c_byte(BoolToInt(initialValue)))
            EXCEPT !.ret = th1.ret]

\* RemoteString._new(rob, initialValue)
NewStringOperand(th, initialValue) ==
    LET th1 == getNewOperandId(th)
    IN  [addInstruction(th1, "NewString",
                        <<c_long(th1.ret), create_unicode_buffer(initialValue)>>)
            EXCEPT !.ret = th1.ret]

newInt(initialValue) ==
    /\ CanEmit /\ CanAllocate
    /\ LET th == NewIntOperand(Thread, initialValue)
       IN  Commit(th, "newInt", initialValue) /\ Keep(th, "RemoteInt")
    /\ UNCHANGED <<scopeStack, results, loggingEnabled, log, ro, blocks>>

newBool(initialValue) ==
    /\ CanEmit /\ CanAllocate
    /\ LET th == NewBoolOperand(Thread, initialValue)
       IN  Commit(th, "newBool", BoolToInt(initialValue)) /\ Keep(th, "RemoteBool")
    /\ UNCHANGED <<scopeStack, results, loggingEnabled, log, ro, blocks>>

newString(initialValue) ==
    /\ CanEmit /\ CanAllocate
    /\ LET th == NewStringOperand(Thread, initialValue)
       IN  Commit(th, "newString", Len(initialValue)) /\ Keep(th, "RemoteString")
    /\ UNCHANGED <<scopeStack, results, loggingEnabled, log, ro, blocks>>

---------------------------------------------------------------------------
(* Operations of the operand wrappers.  An argument that may be a wrapper  *)
(* or a plain Python value is [kind, h, text]: kind "handle" with the      *)
(* wrapper h, "str" with the text, "raw" for a plain value of the type the *)
(* operation converts, "invalid" for any other object.                     *)

NoHandle == [cls |-> "none", id |-> 0, own |-> TRUE]

HandleArg(h) == [kind |-> "handle", h |-> h, text |-> <<>>]

StrArg(text) == [kind |-> "str", h |-> NoHandle, text |-> text]

RawArg == [kind |-> "raw", h |-> NoHandle, text |-> <<>>]

InvalidArg == [kind |-> "invalid", h |-> NoHandle, text |-> <<>>]

\* The text callers pass as a plain str
LiteralText == <<"x">>

\* The GUID callers pass: Data1, Data2, Data3 and the eight bytes of Data4
TheGuid == [Data1 |-> 1, Data2 |-> 2, Data3 |-> 3, Data4 |-> <<0, 0, 0, 0, 0, 0, 0, 4>>]

\* _RemoteBaseObject.stringify on the wrapper of operandId
Stringify(th, operandId) ==
    LET th1 == getNewOperandId(th)
    IN  [addInstruction(th1, "Stringify", <<c_long(th1.ret), c_long(operandId)>>)
            EXCEPT !.ret = th1.ret]

\* Mutant of concat: the two operands change places.
concat_Swapped(th, selfId, other, toResultId) ==
    LET emit(t, otherId) ==
            addInstruction(t, "RemoteStringConcat",
                           <<c_long(toResultId), c_long(otherId), c_long(selfId)>>)
    IN  IF th.err # "none" THEN th
        ELSE IF other.kind = "handle" /\ other.h.cls = "RemoteString"
        THEN emit(th, other.h.id)
        ELSE IF other.kind = "str"
        THEN LET t1 == NewStringOperand(th, other.text) IN emit(t1, t1.ret)
        ELSE IF other.kind = "handle"
        THEN LET t1 == Stringify(th, other.h.id) IN emit(t1, t1.ret)
        ELSE [th EXCEPT !.err = "TypeError"]

\* RemoteString._concat(self, other, toResult), toResult a RemoteString
concat(th, selfId, other, toResultId) ==
    LET emit(t, otherId) ==
            addInstruction(t, "RemoteStringConcat",
                           <<c_long(toResultId), c_long(selfId), c_long(otherId)>>)
    IN  IF th.err # "none" THEN th
        ELSE IF other.kind = "handle" /\ other.h.cls = "RemoteString"
        THEN emit(th, other.h.id)
        ELSE IF other.kind = "str"
        THEN LET t1 == NewStringOperand(th, other.text) IN emit(t1, t1.ret)
        ELSE IF other.kind = "handle"
        THEN LET t1 == Stringify(th, other.h.id) IN emit(t1, t1.ret)
        ELSE [th EXCEPT !.err = "TypeError"]

\* RemoteString.__add__
StringAdd(th, selfId, other) ==
    LET th1 == getNewOperandId(th)
    IN  [concat(th1, selfId, other, th1.ret) EXCEPT !.ret = th1.ret]

\* RemoteString.__iadd__
StringIAdd(th, selfId, other) ==
    [concat(th, selfId, other, selfId) EXCEPT !.ret = selfId]

\* _RemoteNullable._initOperand
NullableInitOperand(th, operandId) ==
    addInstruction(th, "NewNull", <<c_long(operandId)>>)

\* RemoteGuid._new(rob, initialValue)
NewGuidOperand(th, g) ==
    LET th1 == getNewOperandId(th)
    IN  [addInstruction(th1, "NewGuid",
            <<c_long(th1.ret), c_ulong(g.Data1), c_ushort(g.Data2), c_ushort(g.Data3)>>
            \o [k \in 1..Len(g.Data4) |-> c_byte(g.Data4[k])])
            EXCEPT !.ret = th1.ret]

\* RemoteExtensionTarget.isExtensionSupported
IsExtensionSupported(th, selfId, extensionGuid) ==
    LET th1 == IF extensionGuid.kind = "handle" /\ extensionGuid.h.cls = "RemoteGuid"
               THEN [th EXCEPT !.ret = extensionGuid.h.id]
               ELSE NewGuidOperand(th, TheGuid)
        th2 == getNewOperandId(th1)
    IN  [addInstruction(th2, "IsExtensionSupported",
                        <<c_long(th2.ret), c_long(selfId), c_ulong(th1.ret)>>)
            EXCEPT !.ret = th2.ret]

\* RemoteElement.getPropertyValue
GetPropertyValue(th, selfId, propertyId, ignoreDefault) ==
    LET th1 == IF propertyId.kind = "handle" /\ propertyId.h.cls = "RemoteInt"
               THEN [th EXCEPT !.ret = propertyId.h.id]
               ELSE NewIntOperand(th, 0)
        th2 == IF ignoreDefault.kind = "handle" /\ ignoreDefault.h.cls = "RemoteBool"
               THEN [th1 EXCEPT !.ret = ignoreDefault.h.id]
               ELSE NewBoolOperand(th1, FALSE)
        th3 == getNewOperandId(th2)
    IN  [addInstruction(th3, "GetPropertyValue",
                        <<c_long(th3.ret), c_long(selfId), c_long(th1.ret), c_long(th2.ret)>>)
            EXCEPT !.ret = th3.ret]

Untouched == UNCHANGED <<scopeStack, results, loggingEnabled, log, ro, blocks>>

stringify(h) ==
    /\ CanEmit /\ CanAllocate
    /\ LET th == Stringify(Thread, h.id)
       IN  Commit(th, "stringify", h.id) /\ Keep(th, "RemoteString")
    /\ Untouched

\* self + other
add(h, other) ==
    /\ CanEmit /\ CanAllocate
    /\ h.cls = "RemoteString"
    /\ LET th == StringAdd(Thread, h.id, other)
       IN  CommitWith(th, "__add__", h.id, other.kind) /\ Keep(th, "RemoteString")
    /\ Untouched

\* self += other: the caller's name is bound to the wrapper it already had
iadd(h, other) ==
    /\ CanEmit /\ CanAllocate
    /\ h.cls = "RemoteString"
    /\ LET th == StringIAdd(Thread, h.id, other)
       IN  CommitWith(th, "__iadd__", h.id, other.kind)
    /\ UNCHANGED handles
    /\ Untouched

\* rob.newElement(initialValue): an imported element, or NewNull for None
newElement(isNone) ==
    /\ CanEmit /\ CanAllocate
    /\ LET th1 == getNewOperandId(Thread)
           th  == IF isNone THEN [NullableInitOperand(th1, th1.ret) EXCEPT !.ret = th1.ret]
                  ELSE th1
       IN  /\ Commit(th, "newElement", BoolToInt(isNone))
           /\ Keep(th, "RemoteElement")
           /\ ro' = IF isNone THEN ro ELSE [ro EXCEPT !.imported = @ \cup {th1.ret}]
    /\ UNCHANGED <<scopeStack, results, loggingEnabled, log, blocks>>

isExtensionSupported(h, extensionGuid) ==
    /\ CanEmit /\ CanAllocate
    /\ h.cls = "RemoteElement"
    /\ LET th == IsExtensionSupported(Thread, h.id, extensionGuid)
       IN  Commit(th, "isExtensionSupported", h.id) /\ Keep(th, "RemoteBool")
    /\ Untouched

getPropertyValue(h, propertyId, ignoreDefault) ==
    /\ CanEmit /\ CanAllocate
    /\ h.cls = "RemoteElement"
    /\ LET th == GetPropertyValue(Thread, h.id, propertyId, ignoreDefault)
       IN  Commit(th, "getPropertyValue", h.id) /\ Keep(th, "RemoteVariant")
    /\ Untouched

\* The caller gets hold of a string wrapper made by another builder, whose
\* first operand it is.
ReceiveForeignHandle ==
    /\ handles' = handles \cup {ForeignHandle("RemoteString", 1)}
    /\ last' = Outcome("foreign", 1, "none", 1)
    /\ UNCHANGED <<instructions, operandIdGen, scopeStack, results,
                   supportedOpcodesCache, loggingEnabled, log, ro, blocks>>

---------------------------------------------------------------------------
(* Variants.  A class a caller passes is named by a string; "object" is a  *)
(* class that is no subclass of _RemoteBaseObject.                         *)

\* The wrapper classes that declare an _isTypeInstruction
RemoteClasses == {"RemoteInt", "RemoteBool", "RemoteString"}

\* remoteClass._isTypeInstruction
isTypeInstruction(remoteClass) ==
    CASE remoteClass = "RemoteInt" -> "IsInt"
      [] remoteClass = "RemoteBool" -> "IsBool"
      [] remoteClass = "RemoteString" -> "IsString"

\* RemoteVariant._new(rob)
NewVariantOperand(th) ==
    LET th1 == getNewOperandId(th)
    IN  [NullableInitOperand(th1, th1.ret) EXCEPT !.ret = th1.ret]

\* RemoteVariant.isType(remoteClass) on the wrapper of selfId
IsType(th, selfId, remoteClass) ==
    IF remoteClass \notin RemoteClasses
    THEN [th EXCEPT !.err = "TypeError"]
    ELSE LET result == NewBoolOperand(th, FALSE)
         IN  [addInstruction(result, "IsType", <<c_long(result.ret), c_long(selfId)>>)
                 EXCEPT !.ret = result.ret]

\* Mutant of AsType: the wrapper is made as cls._new makes one, with a new
\* id and a creation instruction.
AsType_ByNew(h, remoteClass) ==
    /\ CanEmit /\ CanAllocate
    /\ LET th == NewIntOperand(Thread, 0)
       IN  CommitWith(th, "asType", h.id, remoteClass) /\ Keep(th, remoteClass)
    /\ Untouched

\* RemoteVariant.asType(remoteClass): remoteClass(self._rob, self._operandId)
AsType(h, remoteClass) ==
    /\ handles' = handles \cup {[cls |-> remoteClass, id |-> h.id, own |-> h.own]}
    /\ last' = [Outcome("asType", h.id, "none", h.id) EXCEPT !.cls = remoteClass]
    /\ UNCHANGED <<instructions, operandIdGen, scopeStack, results,
                   supportedOpcodesCache, loggingEnabled, log, ro, blocks>>

newVariant ==
    /\ CanEmit /\ CanAllocate
    /\ LET th == NewVariantOperand(Thread)
       IN  Commit(th, "newVariant", -1) /\ Keep(th, "RemoteVariant")
    /\ Untouched

isType(h, remoteClass) ==
    /\ CanEmit /\ CanAllocate
    /\ h.cls = "RemoteVariant"
    /\ LET th == IsType(Thread, h.id, remoteClass)
       IN  CommitWith(th, "isType", h.id, remoteClass) /\ Keep(th, "RemoteBool")
    /\ Untouched

asType(h, remoteClass) ==
    /\ h.cls = "RemoteVariant"
    /\ AsType(h, remoteClass)

---------------------------------------------------------------------------
(* Conditional blocks: _RemoteScopeContext and _RemoteIfBlockBuilder.      *)
(* A block object keeps the fields the code gives it (_condition,          *)
(* _conditionInstructionIndex, _inElse, _jumpToEndInstructionIndex, -1     *)
(* while the attribute is not set) and, for the properties below, what     *)
(* happened to it: exited, explicitElse (Else ran before __exit__) and     *)
(* endIndex (the index the next instruction had when __exit__ finished).   *)

NewBlock(condition, conditionInstructionIndex) ==
    [condition |-> condition,
     conditionInstructionIndex |-> conditionInstructionIndex,
     inElse |-> FALSE,
     jumpToEndInstructionIndex |-> -1,
     exited |-> FALSE, explicitElse |-> FALSE, endIndex |-> -1]

\* Mutants of ElseJumpOffset: the jump lands on the Fork instead of after
\* it; the two indexes are subtracted the wrong way round.
ElseJumpOffset_LandsOnFork(nextInstructionIndex, conditionInstructionIndex) ==
    nextInstructionIndex - conditionInstructionIndex - 1

ElseJumpOffset_Swapped(nextInstructionIndex, conditionInstructionIndex) ==
    conditionInstructionIndex - nextInstructionIndex

\* relativeJumpOffset of Else
ElseJumpOffset(nextInstructionIndex, conditionInstructionIndex) ==
    nextInstructionIndex - conditionInstructionIndex

\* Mutant of ExitJumpOffset: the jump lands one past the end of the block.
ExitJumpOffset_PastEnd(nextInstructionIndex, jumpToEndInstructionIndex) ==
    nextInstructionIndex - jumpToEndInstructionIndex + 1

\* relativeJumpOffset of __exit__
ExitJumpOffset(nextInstructionIndex, jumpToEndInstructionIndex) ==
    nextInstructionIndex - jumpToEndInstructionIndex

\* Mutant of BlockElse: the alternate may be entered again.
BlockElse_Reentrant(th, blk) ==
    IF th.err # "none" THEN [th |-> th, blk |-> blk]
    ELSE LET th1 == addInstruction(th, "Fork", <<c_long(1)>>)
             in1 == [blk EXCEPT !.inElse = TRUE]
         IN  IF th1.err # "none" THEN [th |-> th1, blk |-> in1]
             ELSE [th |-> [th1 EXCEPT !.ins = SetParamValue(
                              th1.ins, blk.conditionInstructionIndex, 1,
                              lastInstructionIndex(th1.ins) + 1
                                  - blk.conditionInstructionIndex)],
                   blk |-> [in1 EXCEPT !.jumpToEndInstructionIndex = th1.ret]]

\* _RemoteIfBlockBuilder.Else on block object blk: the thread and the object after it
BlockElse(th, blk) ==
    IF th.err # "none" THEN [th |-> th, blk |-> blk]
    ELSE IF blk.inElse
    THEN [th |-> [th EXCEPT !.err = "RuntimeError: Else block already called"],
          blk |-> blk]
    ELSE LET th1 == addInstruction(th, "Fork", <<c_long(1)>>)
             in1 == [blk EXCEPT !.inElse = TRUE]
         IN  IF th1.err # "none" THEN [th |-> th1, blk |-> in1]
             ELSE LET nextInstructionIndex == lastInstructionIndex(th1.ins) + 1
                      relativeJumpOffset ==
                          ElseJumpOffset(nextInstructionIndex, blk.conditionInstructionIndex)
                  IN  [th |-> [th1 EXCEPT !.ins = SetParamValue(
                                   th1.ins, blk.conditionInstructionIndex, 1,
                                   relativeJumpOffset)],
                       blk |-> [in1 EXCEPT !.jumpToEndInstructionIndex = th1.ret]]

\* Mutant of BlockClose: the Fork keeps the offset it was emitted with.
BlockClose_KeepsPlaceholder(th, blk) ==
    LET e == IF blk.inElse THEN [th |-> th, blk |-> blk] ELSE BlockElse(th, blk)
    IN  IF e.th.err # "none" THEN e
        ELSE [th |-> e.th,
              blk |-> [e.blk EXCEPT !.endIndex = lastInstructionIndex(e.th.ins) + 1]]

\* _RemoteIfBlockBuilder.__exit__ after the pop
BlockClose(th, blk) ==
    LET e == IF blk.inElse THEN [th |-> th, blk |-> blk] ELSE BlockElse(th, blk)
    IN  IF e.th.err # "none" THEN e
        ELSE LET nextInstructionIndex == lastInstructionIndex(e.th.ins) + 1
                 relativeJumpOffset ==
                     ExitJumpOffset(nextInstructionIndex, e.blk.jumpToEndInstructionIndex)
             IN  [th |-> [e.th EXCEPT !.ins = SetParamValue(
                              e.th.ins, e.blk.jumpToEndInstructionIndex, 0,
                              relativeJumpOffset)],
                  blk |-> [e.blk EXCEPT !.endIndex = nextInstructionIndex]]

\* RemoteOperationBuilder._currentScope (0: None)
currentScope == IF scopeStack # <<>> THEN scopeStack[Len(scopeStack)] ELSE 0

\* with rob.IfBlockContext(condition): the constructor and __enter__
IfBlockEnter(condition) ==
    /\ CanEmit /\ Len(blocks) < MaxBlocks
    /\ LET th == addInstruction(Thread, "ForkIfFalse",
                                <<c_long(condition.id), c_long(1)>>)
       IN  /\ Commit([th EXCEPT !.ret = -1], "IfBlock.__enter__", condition.id)
           /\ IF th.err # "none"
              THEN UNCHANGED <<blocks, scopeStack>>
              ELSE /\ blocks' = Append(blocks, NewBlock(condition.id, th.ret))
                   /\ scopeStack' = Append(scopeStack, Len(blocks) + 1)
    /\ UNCHANGED <<results, loggingEnabled, log, ro, handles>>

\* rob.Else()
Else ==
    /\ CanEmit
    /\ IF currentScope = 0
       THEN /\ last' = Outcome("Else", 0,
                               "RuntimeError: Else block called outside of If block", -1)
            /\ UNCHANGED <<instructions, supportedOpcodesCache, operandIdGen, blocks>>
       ELSE LET e == BlockElse(Thread, blocks[currentScope])
            IN  /\ Commit([e.th EXCEPT !.ret = -1], "Else", currentScope)
                /\ blocks' = [blocks EXCEPT ![currentScope] = e.blk]
    /\ UNCHANGED <<scopeStack, results, loggingEnabled, log, ro, handles>>

\* The with statement, or a caller, leaves block b: b.__exit__(exc_type, ...).
\* A scope object is left once.
IfBlockExit(b, exc) ==
    /\ b \in 1..Len(blocks)
    /\ ~blocks[b].exited
    /\ IF scopeStack = <<>>
       THEN /\ last' = Outcome("IfBlock.__exit__", b, "IndexError", -1)
            /\ blocks' = [blocks EXCEPT ![b].exited = TRUE]
            /\ UNCHANGED <<instructions, supportedOpcodesCache, operandIdGen, scopeStack>>
       ELSE LET e == BlockClose(Thread, blocks[b])
            IN  /\ scopeStack' = SubSeq(scopeStack, 1, Len(scopeStack) - 1)
                /\ Commit([e.th EXCEPT !.ret = -1], "IfBlock.__exit__", b)
                /\ blocks' = [blocks EXCEPT ![b] =
                       [e.blk EXCEPT !.exited = TRUE,
                                     !.explicitElse = blocks[b].inElse]]
    /\ UNCHANGED <<results, loggingEnabled, log, ro, handles>>

---------------------------------------------------------------------------
(* Encoding.  A buffer is a sequence of bytes, each a number in 0..255.    *)
(* Numbers are written least significant byte first, as the build this     *)
(* code runs on does: a long and an unsigned long take four bytes, an      *)
(* unsigned short and a wide character two, a byte one.                    *)

\* The n bytes of x, two's complement, least significant first
LittleEndian(x, n) ==
    IF x >= 0
    THEN [i \in 1..n |-> (x \div (256 ^ (i - 1))) % 256]
    ELSE [i \in 1..n |-> 255 - (((-x - 1) \div (256 ^ (i - 1))) % 256)]

\* struct.pack('l', x)
Pack_l(x) == LittleEndian(x, 4)

\* ord(ch) for the characters the callers use
CharCode(ch) ==
    CASE ch = "a" -> 97
      [] ch = "x" -> 120
      [] ch = "y" -> 121
      [] ch = "\n" -> 10

\* The numbers of lowLevel.InstructionType
OpcodeNumber(opcode) ==
    CASE opcode = "NewInt" -> 1
      [] opcode = "NewBool" -> 2
      [] opcode = "NewString" -> 3
      [] opcode = "NewNull" -> 4
      [] opcode = "NewGuid" -> 5
      [] opcode = "IsInt" -> 6
      [] opcode = "IsBool" -> 7
      [] opcode = "IsString" -> 8
      [] opcode = "IsGuid" -> 9
      [] opcode = "IsElement" -> 10
      [] opcode = "IsNull" -> 11
      [] opcode = "IsType" -> 12
      [] opcode = "Stringify" -> 13
      [] opcode = "RemoteStringConcat" -> 14
      [] opcode = "IsExtensionSupported" -> 15
      [] opcode = "CallExtension" -> 16
      [] opcode = "GetPropertyValue" -> 17
      [] opcode = "ForkIfFalse" -> 18
      [] opcode = "Fork" -> 19
      [] opcode = "Halt" -> 20

\* Concatenation of a sequence of byte sequences
RECURSIVE Flatten(_)
Flatten(seqs) ==
    IF seqs = <<>> THEN <<>>
    ELSE seqs[1] \o Flatten(SubSeq(seqs, 2, Len(seqs)))

\* len(param) of a ctypes array made by create_unicode_buffer: the
\* characters and the terminator
ArrayLen(param) == Len(param.s) + 1

\* (c_char * sizeof(param)).from_address(addressof(param)).raw
RawBytes(param) ==
    CASE param.t = "c_long" -> LittleEndian(param.v, 4)
      [] param.t = "c_ulong" -> LittleEndian(param.v, 4)
      [] param.t = "c_ushort" -> LittleEndian(param.v, 2)
      [] param.t = "c_byte" -> LittleEndian(param.v, 1)
      [] param.t = "c_wchar_array" ->
            Flatten([k \in 1..Len(param.s) |-> LittleEndian(CharCode(param.s[k]), 2)])
                \o <<0, 0>>

\* Mutant of ParamBytes: the terminator of a text stays in the buffer.
ParamBytes_KeepsTerminator(param) ==
    IF param.t = "c_wchar_array"
    THEN Pack_l(ArrayLen(param) - 1) \o RawBytes(param)
    ELSE RawBytes(param)

\* Mutant of ParamBytes: the length written counts the terminator.
ParamBytes_CountsTerminator(param) ==
    IF param.t = "c_wchar_array"
    THEN Pack_l(ArrayLen(param))
             \o SubSeq(RawBytes(param), 1, Len(RawBytes(param)) - 2)
    ELSE RawBytes(param)

\* What _generateByteCode adds for one parameter
ParamBytes(param) ==
    IF param.t = "c_wchar_array"
    THEN Pack_l(ArrayLen(param) - 1)
             \o SubSeq(RawBytes(param), 1, Len(RawBytes(param)) - 2)
    ELSE RawBytes(param)

\* RemoteOperationBuilder._generateByteCode
generateByteCode(ins) ==
    Flatten([i \in 1..Len(ins) |->
                Pack_l(OpcodeNumber(ins[i].op))
                    \o Flatten([k \in 1..Len(ins[i].params) |->
                                   ParamBytes(ins[i].params[k])])])

\* RemoteOperationBuilder._versionBytes
versionBytes == Pack_l(0)

\* The buffer execute passes to the Adapter for the instruction list it
\* submits: self._versionBytes + byteCode
ExecuteBuffer(submitted) == versionBytes \o generateByteCode(submitted)

---------------------------------------------------------------------------
(* Results and execution.                                                  *)

\* rob.addToResults(remoteObj)
addToResults(remoteObj) ==
    /\ ro' = [ro EXCEPT !.requested = @ \cup {remoteObj.id}]
    /\ last' = Outcome("addToResults", remoteObj.id, "none", -1)
    /\ UNCHANGED <<instructions, operandIdGen, scopeStack, results,
                   supportedOpcodesCache, loggingEnabled, log, blocks, handles>>

\* What the Adapter's execute may answer for a stream of n instructions: a
\* status, the failing instruction's index with UnhandledException, and a
\* result table holding some of the operands marked for results.
AdapterResponses(n) ==
    { r \in [set : {TRUE}, status : Statuses, errorLocation : -1..(n - 1),
             table : SUBSET ro.requested] :
        (r.status = "UnhandledException") <=> (r.errorLocation # -1) }

\* Mutant of Classify: the last branch of the chain is missing.
Classify_NoExecutionFailure(status) ==
    IF status = "MalformedBytecode" THEN "MalformedBytecodeException"
    ELSE IF status = "InstructionLimitExceeded" THEN "InstructionLimitExceededException"
    ELSE IF status = "UnhandledException" THEN "RemoteException"
    ELSE "none"

\* The exception execute raises for a status ("none": it returns)
Classify(status) ==
    IF status = "MalformedBytecode" THEN "MalformedBytecodeException"
    ELSE IF status = "InstructionLimitExceeded" THEN "InstructionLimitExceededException"
    ELSE IF status = "UnhandledException" THEN "RemoteException"
    ELSE IF status = "ExecutionFailure" THEN "ExecutionFailureException"
    ELSE "none"

\* Mutant of GetResultError: the result table is not consulted.
GetResultError_NoLookup(res, operandId) ==
    IF ~res.set THEN "RuntimeError: Not executed" ELSE "none"

\* rob.getResult(remoteObj): the exception it raises ("none": it returns a value)
GetResultError(res, operandId) ==
    IF ~res.set THEN "RuntimeError: Not executed"
    ELSE IF operandId \notin res.table THEN "LookupError: No such operand"
    ELSE "none"

\* Mutant of ErrorRecord: the message describes the last instruction.
ErrorRecord_Last(ins, res) ==
    IF res.status = "UnhandledException" THEN ins[Len(ins)] ELSE NoRecord

\* The instruction record the message of RemoteException describes
ErrorRecord(ins, res) ==
    IF res.status = "UnhandledException"
    THEN getInstructionRecord(ins, res.errorLocation)
    ELSE NoRecord

\* The instruction index the message of RemoteException gives (-1: none)
ErrorIndex(res) ==
    IF res.status = "UnhandledException" THEN res.errorLocation ELSE -1

\* rob.halt()
halt(th) == addInstruction(th, "Halt", <<>>)

\* Mutant of Executing: a status other than Success makes it call the
\* Adapter once more.
Executing_Retries(opname, arg, resp) ==
    LET th == halt(Thread)
    IN  /\ instructions' = th.ins
        /\ supportedOpcodesCache' = th.cache
        /\ operandIdGen' = th.gen
        /\ ro' = [ro EXCEPT !.execCalls = @ + (IF resp.status = "Success" THEN 1 ELSE 2),
                            !.submitted = th.ins]
        /\ results' = resp
        /\ last' = [Outcome(opname, arg, Classify(resp.status), ErrorIndex(resp))
                       EXCEPT !.record = ErrorRecord(th.ins, resp)]
        /\ UNCHANGED <<scopeStack, loggingEnabled, log, blocks, handles>>

\* The body of rob.execute(), called as opname, with the Adapter answering resp
Executing(opname, arg, resp) ==
    LET th == halt(Thread)
    IN  /\ instructions' = th.ins
        /\ supportedOpcodesCache' = th.cache
        /\ operandIdGen' = th.gen
        /\ IF th.err # "none"
           THEN /\ last' = Outcome(opname, arg, th.err, -1)
                /\ UNCHANGED <<results, ro>>
           ELSE /\ ro' = [ro EXCEPT !.execCalls = @ + 1, !.submitted = th.ins]
                /\ results' = resp
                /\ last' = [Outcome(opname, arg, Classify(resp.status), ErrorIndex(resp))
                               EXCEPT !.record = ErrorRecord(th.ins, resp)]
        /\ UNCHANGED <<scopeStack, loggingEnabled, log, blocks, handles>>

\* rob.execute(), the Adapter answering with the given status
execute(status) ==
    /\ ro.execCalls < MaxExecutes
    /\ \E resp \in AdapterResponses(Len(instructions) + 1) :
           resp.status = status /\ Executing("execute", -1, resp)

getResult(remoteObj) ==
    /\ last' = Outcome("getResult", remoteObj.id,
                       GetResultError(results, remoteObj.id),
                       IF GetResultError(results, remoteObj.id) = "none"
                       THEN remoteObj.id ELSE -1)
    /\ UNCHANGED <<instructions, operandIdGen, scopeStack, results,
                   supportedOpcodesCache, loggingEnabled, log, ro, blocks, handles>>

\* with rob: ... entered
BuilderEnter ==
    /\ last' = Outcome("__enter__", -1, "none", -1)
    /\ UNCHANGED <<instructions, operandIdGen, scopeStack, results,
                   supportedOpcodesCache, loggingEnabled, log, ro, blocks, handles>>

\* Mutant of BuilderExit: exc_type is not looked at.
BuilderExit_AlwaysExecutes(exc) ==
    /\ ro.execCalls < MaxExecutes
    /\ \E resp \in AdapterResponses(Len(instructions) + 1) :
           Executing("__exit__", BoolToInt(exc), resp)

\* with rob: ... left, by an exception (exc) or normally
BuilderExit(exc) ==
    IF exc
    THEN /\ last' = Outcome("__exit__", 1, "none", -1)
         /\ UNCHANGED <<instructions, operandIdGen, scopeStack, results,
                        supportedOpcodesCache, loggingEnabled, log, ro, blocks, handles>>
    ELSE /\ ro.execCalls < MaxExecutes
         /\ \E resp \in AdapterResponses(Len(instructions) + 1) :
                Executing("__exit__", 0, resp)

---------------------------------------------------------------------------
(* Logging.                                                                *)

NewLine == <<"\n">>

\* for string in strings: self._log += string
RECURSIVE LogStrings(_, _, _)
LogStrings(th, logId, strings) ==
    IF strings = <<>> THEN th
    ELSE LogStrings(StringIAdd(th, logId, strings[1]), logId,
                    SubSeq(strings, 2, Len(strings)))

\* Mutant of LogMessage: each text goes to a new string, self._log = self._log + string.
LogMessage_ToNewString(th, enabled, logId, strings) ==
    IF ~enabled THEN th
    ELSE StringAdd(th, logId, StrArg(NewLine))

\* rob.logMessage(*strings); the value returned is the operand self._log names
LogMessage(th, enabled, logId, strings) ==
    IF ~enabled THEN [th EXCEPT !.ret = logId]
    ELSE StringIAdd(LogStrings(th, logId, strings), logId, StrArg(NewLine))

logMessage(strings) ==
    /\ loggingEnabled => (CanEmit /\ CanAllocate)
    /\ LET th == LogMessage(Thread, loggingEnabled, log, strings)
       IN  /\ Commit(th, "logMessage", Len(strings))
           /\ log' = IF th.err = "none" THEN th.ret ELSE log
    /\ UNCHANGED <<scopeStack, results, loggingEnabled, ro, blocks, handles>>

---------------------------------------------------------------------------
(* Specifications.                                                         *)

\* Building conditional blocks with a builder made without logging, and
\* submitting the stream to an Adapter that runs it successfully.
NextCF ==
    \/ \E v \in BOOLEAN : newBool(v)
    \/ newString(<<"y">>)
    \/ \E condition \in { h \in handles : h.cls = "RemoteBool" } :
           IfBlockEnter(condition)
    \/ Else
    \/ \E b \in 1..Len(blocks), exc \in BOOLEAN : IfBlockExit(b, exc)
    \/ execute("Success")

SpecCF == InitWith(FALSE) /\ [][NextCF]_vars

\* Creating operands and emitting the operations of their wrappers.
NextOps ==
    \/ newInt(0)
    \/ newString(<<"a">>)
    \/ \E isNone \in BOOLEAN : newElement(isNone)
    \/ ReceiveForeignHandle
    \/ \E h \in handles : stringify(h)
    \/ \E h \in handles :
          \E other \in {HandleArg(o) : o \in handles} \cup {StrArg(LiteralText), InvalidArg} :
             add(h, other)
    \/ \E h \in handles :
          \E other \in {HandleArg(o) : o \in handles} \cup {StrArg(LiteralText), InvalidArg} :
             iadd(h, other)
    \/ \E h \in handles : isExtensionSupported(h, RawArg)
    \/ \E h \in handles :
          \E propertyId \in {HandleArg(o) : o \in handles} \cup {RawArg} :
             getPropertyValue(h, propertyId, RawArg)

SpecOps == Init /\ [][NextOps]_vars

\* Variants: creating them, testing their type and viewing them as a class.
NextVariant ==
    \/ newVariant
    \/ \E h \in handles, remoteClass \in RemoteClasses \cup {"object"} :
           isType(h, remoteClass)
    \/ \E h \in handles, remoteClass \in RemoteClasses : asType(h, remoteClass)
    \/ \E h \in handles : stringify(h)

SpecVariant == Init /\ [][NextVariant]_vars

\* Logging, with a builder made with or without it, among other emissions.
NextLog ==
    \/ \E strings \in {<<>>, <<StrArg(LiteralText)>>} : logMessage(strings)
    \/ \E v \in BOOLEAN : newBool(v)
    \/ newString(<<"a">>)
    \/ \E h \in handles : addToResults(h)
    \/ \E h \in handles : stringify(h)

SpecLog == Init /\ [][NextLog]_vars

\* Emitting instructions with parameters of every width, texts among them,
\* and submitting the stream.
NextEnc ==
    \/ newInt(0)
    \/ \E v \in BOOLEAN : newBool(v)
    \/ newString(<<"a">>)
    \/ \E isNone \in BOOLEAN : newElement(isNone)
    \/ \E h \in handles : isExtensionSupported(h, RawArg)
    \/ \E h \in handles : add(h, StrArg(LiteralText))
    \/ execute("Success")

SpecEnc == Init /\ [][NextEnc]_vars

\* Marking results, submitting the stream to an Adapter that may answer any
\* status, and reading results; the builder used as a managed scope.
NextExec ==
    \/ \E v \in BOOLEAN : newBool(v)
    \/ \E h \in handles : addToResults(h)
    \/ \E status \in Statuses : execute(status)
    \/ \E h \in handles : getResult(h)
    \/ BuilderEnter
    \/ \E exc \in BOOLEAN : BuilderExit(exc)

SpecExec == Init /\ [][NextExec]_vars

---------------------------------------------------------------------------
(* Running a stream under the jump semantics: ForkIfFalse(c, o) at index i *)
(* continues at i + o when operand c is false and at i + 1 otherwise,      *)
(* Fork(o) at i continues at i + o, Halt stops, and any other instruction  *)
(* continues at i + 1.  val gives each condition operand its value.        *)

IsJump(r) == r.op \in {"Fork", "ForkIfFalse"}

\* The offset parameter of a jump instruction
JumpOffset(r) == IF r.op = "Fork" THEN r.params[1].v ELSE r.params[2].v

NextPc(ins, val, pc) ==
    LET r == getInstructionRecord(ins, pc)
    IN  IF r.op = "ForkIfFalse"
        THEN IF val[r.params[1].v] THEN pc + 1 ELSE pc + JumpOffset(r)
        ELSE IF r.op = "Fork" THEN pc + JumpOffset(r)
        ELSE pc + 1

\* The run from pc until it reaches an index >= stop, leaves the stream or
\* halts: the indexes executed, where it ended, and whether by a Halt.
RECURSIVE Run(_, _, _, _, _)
Run(ins, val, pc, stop, fuel) ==
    IF fuel = 0 \/ pc < 0 \/ pc >= Len(ins) \/ pc >= stop
    THEN [visited |-> {}, exit |-> pc, halted |-> FALSE]
    ELSE IF getInstructionRecord(ins, pc).op = "Halt"
    THEN [visited |-> {pc}, exit |-> pc, halted |-> TRUE]
    ELSE LET rest == Run(ins, val, NextPc(ins, val, pc), stop, fuel - 1)
         IN  [rest EXCEPT !.visited = @ \cup {pc}]

\* The operands that conditions of the stream read
CondIds(ins) ==
    { ins[k].params[1].v : k \in { j \in 1..Len(ins) : ins[j].op = "ForkIfFalse" } }

Valuations(ins) == [CondIds(ins) -> BOOLEAN]

\* The run of closed block a on the current stream
BlockRun(a, val) ==
    Run(instructions, val, a.conditionInstructionIndex, a.endIndex,
        Len(instructions) + 1)

PrimaryBody(a) == (a.conditionInstructionIndex + 1)..(a.jumpToEndInstructionIndex - 1)

AlternateBody(a) == (a.jumpToEndInstructionIndex + 1)..(a.endIndex - 1)

Closed(a) == a.exited /\ a.endIndex >= 0

\* Block b lies inside one body of closed block a.
NestedIn(b, a) ==
    /\ Closed(b)
    /\ \/ /\ b.conditionInstructionIndex \in PrimaryBody(a)
          /\ b.endIndex <= a.jumpToEndInstructionIndex
       \/ /\ b.conditionInstructionIndex \in AlternateBody(a)
          /\ b.endIndex <= a.endIndex

\* Block b has no instruction between the first and the last of closed block a.
Outside(b, a) ==
    /\ \/ b.conditionInstructionIndex < a.conditionInstructionIndex
       \/ b.conditionInstructionIndex >= a.endIndex
    /\ \/ b.jumpToEndInstructionIndex < a.conditionInstructionIndex
       \/ b.jumpToEndInstructionIndex >= a.endIndex

\* Closed block k is a well-formed conditional block: the stream holds no
\* Halt inside it and every other block is nested in one of its bodies or
\* has no instruction inside it.
WellFormedBlock(k) ==
    LET a == blocks[k]
    IN  /\ Closed(a)
        /\ \A i \in a.conditionInstructionIndex..(a.endIndex - 1) :
               getInstructionRecord(instructions, i).op # "Halt"
        /\ \A j \in (1..Len(blocks)) \ {k} :
               NestedIn(blocks[j], a) \/ Outside(blocks[j], a)

\* The instructions of a body that are in no nested block
TopLevel(k, body) ==
    { i \in body :
        \A j \in (1..Len(blocks)) \ {k} :
            ~(blocks[j].conditionInstructionIndex < i /\ i < blocks[j].endIndex) }

---------------------------------------------------------------------------
(* Properties of conditional blocks.                                       *)

\* C1: a well-formed conditional block closed after an explicit Else()
\* runs exactly one of its bodies: with the condition true the run enters
\* the primary body, executes each of its instructions outside nested
\* blocks and the closing Fork, and none of the alternate body; with the
\* condition false it executes no instruction of the primary body nor the
\* Fork, and each instruction of the alternate body outside nested blocks.
\* Either way it goes on at the same index, the first one after the block.
C1_ExactlyOneBodyRuns ==
    \A k \in 1..Len(blocks) :
        (WellFormedBlock(k) /\ blocks[k].explicitElse) =>
            LET a == blocks[k]
            IN  \A val \in Valuations(instructions) :
                    LET t == BlockRun(a, val)
                    IN  /\ t.exit = a.endIndex
                        /\ ~t.halted
                        /\ IF val[a.condition]
                           THEN /\ TopLevel(k, PrimaryBody(a)) \subseteq t.visited
                                /\ a.jumpToEndInstructionIndex \in t.visited
                                /\ t.visited \cap AlternateBody(a) = {}
                           ELSE /\ TopLevel(k, AlternateBody(a)) \subseteq t.visited
                                /\ t.visited \cap PrimaryBody(a) = {}
                                /\ a.jumpToEndInstructionIndex \notin t.visited

\* C1 witness: a closed outer block with an explicit Else and a block
\* nested in its primary body.
C1_Witness ==
    \E k \in 1..Len(blocks) :
        /\ WellFormedBlock(k) /\ blocks[k].explicitElse
        /\ \E j \in (1..Len(blocks)) \ {k} :
               /\ NestedIn(blocks[j], blocks[k])
               /\ blocks[j].conditionInstructionIndex \in PrimaryBody(blocks[k])

\* C2: a well-formed conditional block closed without Else() has an empty
\* alternate body; with the condition true the run executes each
\* instruction of the primary body outside nested blocks and goes on at the
\* first index after the block, skipping nothing after it; with the
\* condition false it executes no instruction of the primary body and goes
\* on at that same index.
C2_NoAlternateSkipsPrimaryOnly ==
    \A k \in 1..Len(blocks) :
        (WellFormedBlock(k) /\ ~blocks[k].explicitElse) =>
            LET a == blocks[k]
            IN  /\ a.endIndex = a.jumpToEndInstructionIndex + 1
                /\ \A val \in Valuations(instructions) :
                       LET t == BlockRun(a, val)
                       IN  /\ t.exit = a.endIndex
                           /\ ~t.halted
                           /\ IF val[a.condition]
                              THEN TopLevel(k, PrimaryBody(a)) \subseteq t.visited
                              ELSE t.visited \cap PrimaryBody(a) = {}

\* C2 witness: a block closed without Else() whose primary body holds an
\* instruction, with an instruction emitted after the block.
C2_Witness ==
    \E k \in 1..Len(blocks) :
        /\ WellFormedBlock(k) /\ ~blocks[k].explicitElse
        /\ PrimaryBody(blocks[k]) # {}
        /\ Len(instructions) > blocks[k].endIndex

\* The jump instructions of a stream, by 0-based index
JumpIndexes(ins) == { i \in 0..(Len(ins) - 1) : IsJump(getInstructionRecord(ins, i)) }

\* C3: in the stream execute() submitted, every Fork and ForkIfFalse has an
\* offset of at least 1 and its target is an index of the stream, at most
\* that of the final Halt.
C3_SubmittedJumpsForwardInStream ==
    \A i \in JumpIndexes(ro.submitted) :
        LET o == JumpOffset(getInstructionRecord(ro.submitted, i))
        IN  o >= 1 /\ i + o <= Len(ro.submitted) - 1

\* C3 witness: a submitted stream with a closed block whose two offsets
\* were patched to more than the placeholder.
C3_Witness ==
    /\ ro.execCalls > 0
    /\ \E i, j \in JumpIndexes(ro.submitted) :
           /\ getInstructionRecord(ro.submitted, i).op = "ForkIfFalse"
           /\ getInstructionRecord(ro.submitted, j).op = "Fork"
           /\ JumpOffset(getInstructionRecord(ro.submitted, i)) > 1
           /\ JumpOffset(getInstructionRecord(ro.submitted, j)) > 1

---------------------------------------------------------------------------
(* Properties of operands, emission and scopes.                            *)

\* The parameters of an instruction that name operands (1-based positions)
OperandParams(r) ==
    IF r.op \in NewOpcodes \cup {"ForkIfFalse"} THEN {1}
    ELSE IF r.op \in {"Stringify", "IsNull", "IsType"} THEN {1, 2}
    ELSE IF r.op \in {"RemoteStringConcat", "IsExtensionSupported"} THEN {1, 2, 3}
    ELSE IF r.op = "GetPropertyValue" THEN {1, 2, 3, 4}
    ELSE IF r.op = "CallExtension" THEN {1, 2} \cup (4..Len(r.params))
    ELSE {}

\* The creation instructions for operand id among the first n of the stream
CreationsBefore(id, n) ==
    { j \in 1..n : instructions[j].op \in NewOpcodes /\ instructions[j].params[1].v = id }

\* C4: every operand id that is a parameter of an instruction was allocated
\* by this builder and is initialised exactly once, by a creation
\* instruction at or before the referencing instruction or by an import.
C4_OperandsInitialisedBeforeUse ==
    \A i \in 1..Len(instructions) :
        \A k \in OperandParams(instructions[i]) :
            LET id == instructions[i].params[k].v
            IN  /\ id \in 1..(operandIdGen - 1)
                /\ Cardinality(CreationsBefore(id, i))
                      + (IF id \in ro.imported THEN 1 ELSE 0) = 1

\* C5: a call emits no instruction whose opcode was not in the opcode
\* cache: such an emission is rejected and nothing is appended.
C5_UncachedOpcodeRejected ==
    [][\A i \in (Len(instructions) + 1)..Len(instructions') :
          instructions'[i].op \in supportedOpcodesCache]_vars

\* C6: leaving a conditional block that is not the top of the scope stack
\* is an error.
C6_OutOfOrderCloseIsError ==
    [][\A b \in 1..Len(blocks) :
          (~blocks[b].exited /\ blocks'[b].exited /\ currentScope # b)
              => last'.err # "none"]_vars

\* C7: once execute() has encoded the stream, no later call changes the
\* instruction list.
C7_StreamImmutableAfterExecute ==
    [][ro.execCalls > 0 => instructions' = instructions]_vars

---------------------------------------------------------------------------
(* Properties of execution and results.                                    *)

\* C8 as stated: getResult returns a value only after an execute() that
\* succeeded.
C8_ValueOnlyAfterSuccess ==
    (last.op = "getResult" /\ last.err = "none") => results.status = "Success"

\* C8 as amended: getResult returns a value exactly when an execute() has
\* stored the Adapter's answer, whatever its status, and the operand is in
\* the result table; before any execute() it fails as not executed, and
\* with an answer stored and the operand absent it fails as a lookup error.
C8_ValueIffStoredAndPresent ==
    last.op = "getResult" =>
        /\ (last.err = "none") <=> (ro.execCalls > 0 /\ last.arg \in results.table)
        /\ ro.execCalls = 0 => last.err = "RuntimeError: Not executed"
        /\ (ro.execCalls > 0 /\ last.arg \notin results.table)
              => last.err = "LookupError: No such operand"

\* C8 witness: a value read after an execute() that raised a classified error.
C8_Witness ==
    /\ last.op = "getResult" /\ last.err = "none"
    /\ results.status \in Statuses \ {"Success"}

\* C9: execute() returns normally exactly when the Adapter's status is
\* success, with the answer stored; each of the four other statuses raises
\* its own exception.
C9_EveryStatusClassified ==
    (last.op = "execute" /\ last.err # "UnsupportedOpcodeException") =>
        /\ results.set /\ results.status \in Statuses
        /\ (last.err = "none") <=> (results.status = "Success")
        /\ results.status = "MalformedBytecode" => last.err = "MalformedBytecodeException"
        /\ results.status = "InstructionLimitExceeded"
              => last.err = "InstructionLimitExceededException"
        /\ results.status = "UnhandledException" => last.err = "RemoteException"
        /\ results.status = "ExecutionFailure" => last.err = "ExecutionFailureException"

\* C9 witness: an execute() the Adapter answered with ExecutionFailure.
C9_Witness ==
    /\ last.op = "execute" /\ results.status = "ExecutionFailure"
    /\ last.err = "ExecutionFailureException"

\* C10: leaving the builder's scope normally runs execute() once: one Halt
\* is appended and the Adapter's execute is called once; leaving it by a
\* propagating error calls nothing and leaves the builder as it was.
C10_ManagedScopeExecutesOnNormalExit ==
    [][last'.op = "__exit__" =>
          IF last'.arg = 0
          THEN /\ ro'.execCalls = ro.execCalls + 1
               /\ instructions' = Append(instructions, InstructionRecord("Halt", <<>>))
               /\ ro'.submitted = instructions'
          ELSE /\ ro' = ro
               /\ instructions' = instructions
               /\ results' = results]_vars

\* C10 witness: a stream submitted by a normal exit from the scope.
C10_Witness ==
    /\ last.op = "__exit__" /\ last.arg = 0
    /\ ro.execCalls = 1 /\ Len(ro.submitted) > 1

---------------------------------------------------------------------------
(* C11: operand ids are handed out in sequence from 1.  The ids taken      *)
(* during construction are 1, 2, ... up to the generator, and every call   *)
(* takes exactly the next ids after those taken before it: the k-th        *)
(* allocation returns k, whichever operation asked for it, so no id is     *)
(* returned twice.                                                         *)
C11_OperandIdsSequentialFromOne ==
    /\ last.alloc = [i \in 1..(operandIdGen - 1) |-> i]
    /\ [][last'.alloc = [i \in 1..(operandIdGen' - operandIdGen) |->
                                    operandIdGen + i - 1]]_vars

\* '+' with an object that is no text took id 2 after a factory took id 1,
\* and raised before emitting anything.
C11_Witness ==
    /\ last.op = "__add__" /\ last.err = "TypeError"
    /\ last.alloc = <<2>>
    /\ \E h \in handles : h.own /\ h.id = 1

---------------------------------------------------------------------------
(* C12: the alternate of a block is entered at most once.  Else() on a     *)
(* block whose alternate is already active raises and leaves the           *)
(* instruction list, the block objects and the scope stack as they were;   *)
(* the list holds one ForkIfFalse per block and one Fork per block whose   *)
(* alternate was entered, each at the index its block recorded, and every  *)
(* closed block has both.                                                  *)
OpcodeIndexes(ins, opcode) ==
    { i \in 0..(Len(ins) - 1) : getInstructionRecord(ins, i).op = opcode }

C12_OneForkPair ==
    /\ OpcodeIndexes(instructions, "ForkIfFalse") =
           { blocks[b].conditionInstructionIndex : b \in 1..Len(blocks) }
    /\ Cardinality(OpcodeIndexes(instructions, "ForkIfFalse")) = Len(blocks)
    /\ OpcodeIndexes(instructions, "Fork") =
           { blocks[b].jumpToEndInstructionIndex :
                 b \in { c \in 1..Len(blocks) : blocks[c].inElse } }
    /\ Cardinality(OpcodeIndexes(instructions, "Fork")) =
           Cardinality({ c \in 1..Len(blocks) : blocks[c].inElse })
    /\ \A b \in 1..Len(blocks) : Closed(blocks[b]) => blocks[b].inElse

C12_SecondElseRejected ==
    /\ []C12_OneForkPair
    /\ [][(last'.op = "Else" /\ currentScope # 0 /\ blocks[currentScope].inElse)
              => /\ last'.err = "RuntimeError: Else block already called"
                 /\ UNCHANGED <<instructions, blocks, scopeStack, operandIdGen>>]_vars

\* Else() was just rejected on a block whose alternate was active, and
\* that block has its ForkIfFalse and its Fork.
C12_Witness ==
    /\ last.op = "Else" /\ last.err = "RuntimeError: Else block already called"
    /\ blocks[last.arg].inElse
    /\ getInstructionRecord(instructions, blocks[last.arg].jumpToEndInstructionIndex).op
           = "Fork"

---------------------------------------------------------------------------
(* C13: the type check isType emits identifies the candidate class: for    *)
(* one variant, two different candidate classes never yield the same       *)
(* instruction list.                                                       *)
C13_TypeCheckIdentifiesCandidate ==
    \A h \in { v \in handles : v.cls = "RemoteVariant" } :
        \A c1, c2 \in RemoteClasses :
            c1 # c2 => IsType(Thread, h.id, c1).ins # IsType(Thread, h.id, c2).ins

---------------------------------------------------------------------------
(* The text each operand holds after the engine has run a list of          *)
(* NewString and RemoteStringConcat instructions from top to bottom:       *)
(* NewString(id, text) gives id the text; RemoteStringConcat(r, a, b)      *)
(* gives r the text of a followed by the text of b when both hold one.     *)
(* The result is a function from the ids that hold a text.                 *)

RECURSIVE StringValues(_)
StringValues(ins) ==
    IF ins = <<>> THEN [id \in {} |-> <<>>]
    ELSE LET val == StringValues(SubSeq(ins, 1, Len(ins) - 1))
             r   == ins[Len(ins)]
         IN  IF r.op = "NewString"
             THEN (r.params[1].v :> r.params[2].s) @@ val
             ELSE IF /\ r.op = "RemoteStringConcat"
                     /\ r.params[2].v \in DOMAIN val
                     /\ r.params[3].v \in DOMAIN val
             THEN (r.params[1].v :> (val[r.params[2].v] \o val[r.params[3].v])) @@ val
             ELSE val

(* C14: self + x takes a new id for the result and emits                   *)
(* RemoteStringConcat with that id as result; self += x takes no id for    *)
(* the result, emits RemoteStringConcat with self's id as result and       *)
(* returns the same wrapper.  In both, self is the first operand, and with *)
(* x a plain text the result holds, after the run, the text self held      *)
(* followed by x.                                                          *)
C14_ConcatResult ==
    [][(last'.op \in {"__add__", "__iadd__"} /\ last'.err = "none") =>
        LET r == instructions'[Len(instructions')]
            A == last'.arg
            emitted == Len(instructions') - Len(instructions)
        IN  /\ r.op = "RemoteStringConcat"
            /\ r.params[1].v = last'.ret
            /\ r.params[2].v = A
            /\ IF last'.op = "__add__"
               THEN /\ last'.ret = operandIdGen
                    /\ last'.alloc[1] = last'.ret
                    /\ Len(last'.alloc) = emitted
               ELSE /\ last'.ret = A
                    /\ Len(last'.alloc) = emitted - 1
                    /\ handles' = handles
            /\ (last'.cls = "str" /\ A \in DOMAIN StringValues(instructions)) =>
                   /\ last'.ret \in DOMAIN StringValues(instructions')
                   /\ StringValues(instructions')[last'.ret] =
                          StringValues(instructions)[A] \o LiteralText]_vars

\* s + "x" was called on a string created as "a": the result, a new operand,
\* holds "ax".
C14_Witness ==
    /\ last.op = "__add__" /\ last.err = "none" /\ last.cls = "str"
    /\ last.ret # last.arg
    /\ last.ret \in DOMAIN StringValues(instructions)
    /\ StringValues(instructions)[last.ret] = <<"a", "x">>

---------------------------------------------------------------------------
(* C15: a builder made without logging has no log operand and logMessage   *)
(* changes nothing of it.  A builder made with logging created one string  *)
(* operand, empty, as its first instruction and marked it for results;     *)
(* every logMessage appends, to that same operand id and in place, its     *)
(* texts and then a newline, and the log stays that operand.               *)
RECURSIVE Repeat(_, _)
Repeat(text, n) == IF n = 0 THEN <<>> ELSE text \o Repeat(text, n - 1)

C15_LogOperandInPlace ==
    /\ [](IF loggingEnabled
           THEN /\ log = 1 /\ log \in ro.requested
                /\ instructions[1] = InstructionRecord("NewString",
                        <<c_long(log), create_unicode_buffer(<<>>)>>)
                /\ log \in DOMAIN StringValues(instructions)
           ELSE log = 0)
    /\ [][last'.op = "logMessage" =>
            IF ~loggingEnabled
            THEN /\ UNCHANGED <<instructions, operandIdGen, ro, results, scopeStack,
                                supportedOpcodesCache, log, handles, blocks>>
                 /\ last'.err = "none"
            ELSE /\ last'.err = "none" /\ log' = log /\ ro' = ro
                 /\ SubSeq(instructions', 1, Len(instructions)) = instructions
                 /\ \A i \in (Len(instructions) + 1)..Len(instructions') :
                        LET r == instructions'[i]
                        IN  \/ r.op = "NewString" /\ r.params[1].v \in
                                   operandIdGen..(operandIdGen' - 1)
                            \/ /\ r.op = "RemoteStringConcat"
                               /\ r.params[1].v = log /\ r.params[2].v = log
                 /\ StringValues(instructions')[log] =
                        StringValues(instructions)[log]
                            \o Repeat(LiteralText, last'.arg) \o NewLine]_vars

\* logMessage("x") ran on a builder made with logging.
C15_Witness ==
    /\ loggingEnabled
    /\ last.op = "logMessage" /\ last.arg = 1 /\ last.err = "none"
    /\ StringValues(instructions)[log] = <<"x", "\n">>

\* logMessage("x") ran on a builder made without logging.
C15_WitnessDisabled ==
    /\ ~loggingEnabled
    /\ last.op = "logMessage" /\ last.arg = 1
    /\ instructions # <<>>

---------------------------------------------------------------------------
(* C16: asType costs nothing.  The wrapper it returns has the class asked  *)
(* for and the operand id of the variant, and the call leaves the          *)
(* instruction list, the id generator, the scope stack, the result         *)
(* markings and every other builder field as they were.                    *)
C16_AsTypeSameOperand ==
    [][last'.op = "asType" =>
        /\ last'.err = "none"
        /\ last'.ret = last'.arg
        /\ last'.alloc = <<>>
        /\ \E h \in handles' : h.cls = last'.cls /\ h.id = last'.arg
        /\ \A h \in handles' \ handles : h.cls = last'.cls /\ h.id = last'.arg
        /\ UNCHANGED <<instructions, operandIdGen, scopeStack, results,
                       supportedOpcodesCache, loggingEnabled, log, ro, blocks>>]_vars

\* A variant of a non-empty stream was viewed as a string: two wrappers of
\* different classes carry its id.
C16_Witness ==
    /\ last.op = "asType" /\ last.cls = "RemoteString"
    /\ instructions # <<>>
    /\ \E v, w \in handles :
           /\ v.cls = "RemoteVariant" /\ w.cls = "RemoteString"
           /\ v.id = last.arg /\ w.id = last.arg

---------------------------------------------------------------------------
(* Decoding, as the Adapter reads a buffer: the version header, then       *)
(* instructions until the buffer ends, each an opcode number followed by   *)
(* the parameters that opcode takes; a scalar is read in its width and a   *)
(* text as a length n followed by n characters.                            *)

ByteAt(bytes, i) == IF i \in 1..Len(bytes) THEN bytes[i] ELSE 0

\* The unsigned number in the n bytes from position pos
RECURSIVE ReadNumber(_, _, _)
ReadNumber(bytes, pos, n) ==
    IF n = 0 THEN 0
    ELSE ByteAt(bytes, pos) + 256 * ReadNumber(bytes, pos + 1, n - 1)

Opcodes ==
    {"NewInt", "NewBool", "NewString", "NewNull", "NewGuid", "IsInt", "IsBool",
     "IsString", "IsGuid", "IsElement", "IsNull", "IsType", "Stringify",
     "RemoteStringConcat", "IsExtensionSupported", "CallExtension",
     "GetPropertyValue", "ForkIfFalse", "Fork", "Halt"}

OpcodeName(n) ==
    IF \E o \in Opcodes : OpcodeNumber(o) = n
    THEN CHOOSE o \in Opcodes : OpcodeNumber(o) = n
    ELSE "unknown"

Characters == {"a", "x", "y", "\n"}

CodeChar(n) ==
    IF \E ch \in Characters : CharCode(ch) = n
    THEN CHOOSE ch \in Characters : CharCode(ch) = n
    ELSE "?"

\* The parameter types an opcode takes
ParamLayout(opcode) ==
    CASE opcode = "NewInt" -> <<"c_long", "c_long">>
      [] opcode = "NewBool" -> <<"c_long", "c_byte">>
      [] opcode = "NewString" -> <<"c_long", "c_wchar_array">>
      [] opcode = "NewNull" -> <<"c_long">>
      [] opcode = "NewGuid" ->
            <<"c_long", "c_ulong", "c_ushort", "c_ushort">> \o [k \in 1..8 |-> "c_byte"]
      [] opcode \in {"Stringify", "IsNull", "IsType", "ForkIfFalse"} ->
            <<"c_long", "c_long">>
      [] opcode = "RemoteStringConcat" -> <<"c_long", "c_long", "c_long">>
      [] opcode = "IsExtensionSupported" -> <<"c_long", "c_long", "c_ulong">>
      [] opcode = "GetPropertyValue" -> <<"c_long", "c_long", "c_long", "c_long">>
      [] opcode = "Fork" -> <<"c_long">>
      [] OTHER -> <<>>

ScalarWidth(t) ==
    CASE t \in {"c_long", "c_ulong"} -> 4
      [] t = "c_ushort" -> 2
      [] t = "c_byte" -> 1

\* The parameter of type t read at pos, and the position after it
DecodeParam(bytes, pos, t) ==
    IF t = "c_wchar_array"
    THEN LET n == ReadNumber(bytes, pos, 4)
         IN  [param |-> [t |-> t, v |-> 0,
                         s |-> [k \in 1..n |->
                                   CodeChar(ReadNumber(bytes, pos + 4 + 2 * (k - 1), 2))]],
              next |-> pos + 4 + 2 * n]
    ELSE [param |-> [t |-> t, v |-> ReadNumber(bytes, pos, ScalarWidth(t)), s |-> <<>>],
          next |-> pos + ScalarWidth(t)]

RECURSIVE DecodeParams(_, _, _)
DecodeParams(bytes, pos, layout) ==
    IF layout = <<>> THEN [params |-> <<>>, next |-> pos]
    ELSE LET d    == DecodeParam(bytes, pos, layout[1])
             rest == DecodeParams(bytes, d.next, SubSeq(layout, 2, Len(layout)))
         IN  [params |-> <<d.param>> \o rest.params, next |-> rest.next]

RECURSIVE DecodeInstructions(_, _)
DecodeInstructions(bytes, pos) ==
    IF pos > Len(bytes) THEN <<>>
    ELSE LET opcode == OpcodeName(ReadNumber(bytes, pos, 4))
             d      == DecodeParams(bytes, pos + 4, ParamLayout(opcode))
         IN  <<InstructionRecord(opcode, d.params)>> \o DecodeInstructions(bytes, d.next)

\* The instruction list a buffer holds after its version header
Decode(buffer) == DecodeInstructions(buffer, Len(versionBytes) + 1)

\* The bytes one instruction takes in the buffer: its opcode, and for each
\* parameter its width, a text taking its length and two bytes a character
EncodedSize(r) ==
    LET size(param) == IF param.t = "c_wchar_array" THEN 4 + 2 * Len(param.s)
                       ELSE ScalarWidth(param.t)
        sizes == [k \in 1..Len(r.params) |-> [j \in 1..size(r.params[k]) |-> 0]]
    IN  4 + Len(Flatten(sizes))

(* C17: the buffer given to the Adapter is the version header followed by  *)
(* the instructions in the order of the list, each as its opcode and its   *)
(* parameters in order, a text as its character count and its characters   *)
(* without terminator: the buffer has exactly the size of those items,     *)
(* decoding it gives back the list, and the list the builder holds after   *)
(* the call is the list that was encoded.                                  *)
C17_EncodingRoundTrip ==
    ro.execCalls > 0 =>
        /\ SubSeq(ExecuteBuffer(ro.submitted), 1, 4) = versionBytes
        /\ Len(ExecuteBuffer(ro.submitted)) = 4 + Len(Flatten([i \in 1..Len(ro.submitted) |->
                                   [j \in 1..EncodedSize(ro.submitted[i]) |-> 0]]))
        /\ Decode(ExecuteBuffer(ro.submitted)) = ro.submitted
        /\ (last.op = "execute" => instructions = ro.submitted)

\* A stream with a one-character text, another text and a Halt was submitted.
C17_Witness ==
    /\ ro.execCalls > 0
    /\ \E i, j \in 1..Len(ro.submitted) :
           /\ i # j
           /\ ro.submitted[i].op = "NewString" /\ ro.submitted[j].op = "NewString"
           /\ Len(ro.submitted[i].params[2].s) = 1
    /\ ro.submitted[Len(ro.submitted)].op = "Halt"

---------------------------------------------------------------------------
(* C18: when the Adapter reports an unhandled exception at index k, the    *)
(* error execute raises gives k and describes the record at index k of     *)
(* the stream that was submitted, which is the record the builder holds    *)
(* at k.                                                                   *)
C18_ErrorDescribesFailingInstruction ==
    (last.op \in {"execute", "__exit__"} /\ last.err = "RemoteException") =>
        /\ results.status = "UnhandledException"
        /\ last.ret = results.errorLocation
        /\ last.record = getInstructionRecord(ro.submitted, results.errorLocation)
        /\ last.record = getInstructionRecord(instructions, results.errorLocation)

\* The Adapter reported instruction 1 of a stream of three or more, which
\* is not the last one.
C18_Witness ==
    /\ last.op = "execute" /\ last.err = "RemoteException"
    /\ last.ret = 1 /\ Len(ro.submitted) >= 3
    /\ last.record.op = "NewBool"

---------------------------------------------------------------------------
(* C19: execution is single-shot.  A step in which execute runs, called    *)
(* directly or by a normal exit of the managed scope, appends one Halt to  *)
(* the list, submits the list that ends with that Halt and calls the       *)
(* Adapter once, whatever the status it answers; no other step calls the   *)
(* Adapter.                                                                *)
C19_OneHaltOneAdapterCall ==
    [][IF last'.op = "execute" \/ (last'.op = "__exit__" /\ last'.arg = 0)
       THEN /\ instructions' = Append(instructions, InstructionRecord("Halt", <<>>))
            /\ ro'.submitted = instructions'
            /\ ro'.execCalls = ro.execCalls + 1
            /\ results'.set /\ last'.err = Classify(results'.status)
       ELSE ro'.execCalls = ro.execCalls /\ ro'.submitted = ro.submitted]_vars

\* execute ran on a list of two instructions and the Adapter answered
\* ExecutionFailure: one call was made.
C19_Witness ==
    /\ last.op = "execute" /\ last.err = "ExecutionFailureException"
    /\ ro.execCalls = 1
    /\ Len(ro.submitted) = 3
    /\ ro.submitted[3].op = "Halt"

---------------------------------------------------------------------------
(* C20: the instruction list only grows at its end.  A step appends at     *)
(* most the records it emits, each at the index its emitter is given (a    *)
(* block records the previous length of the list as the index of its       *)
(* ForkIfFalse, and of its Fork); no record is removed or moved, none      *)
(* changes its opcode or the number of its parameters, and a record that   *)
(* changes is the ForkIfFalse of a block whose alternate begins in this    *)
(* step, or the Fork of a block closed in this step, and only in its       *)
(* offset parameter.                                                       *)
OffsetParam(r) == IF r.op = "Fork" THEN 1 ELSE 2

C20_AppendOnlyExceptOffsets ==
    [][LET n == Len(instructions)
       IN  /\ Len(instructions') \in {n, n + 1}
           /\ \A i \in 1..n :
                  LET old == instructions[i]
                      new == instructions'[i]
                  IN  /\ new.op = old.op
                      /\ Len(new.params) = Len(old.params)
                      /\ new # old =>
                             /\ old.op \in {"ForkIfFalse", "Fork"}
                             /\ \A k \in 1..Len(old.params) :
                                    k # OffsetParam(old) => new.params[k] = old.params[k]
                             /\ new.params[OffsetParam(old)].t = old.params[OffsetParam(old)].t
                             /\ \E b \in 1..Len(blocks) :
                                    IF old.op = "ForkIfFalse"
                                    THEN /\ blocks[b].conditionInstructionIndex = i - 1
                                         /\ ~blocks[b].inElse /\ blocks'[b].inElse
                                    ELSE /\ blocks'[b].jumpToEndInstructionIndex = i - 1
                                         /\ ~blocks[b].exited /\ blocks'[b].exited
           /\ Len(blocks') > Len(blocks) =>
                  /\ blocks'[Len(blocks')].conditionInstructionIndex = n
                  /\ Len(instructions') = n + 1
                  /\ instructions'[n + 1].op = "ForkIfFalse"
           /\ \A b \in 1..Len(blocks) :
                  (~blocks[b].inElse /\ blocks'[b].inElse) =>
                      /\ blocks'[b].jumpToEndInstructionIndex = n
                      /\ Len(instructions') = n + 1
                      /\ instructions'[n + 1].op = "Fork"]_vars

\* A block with an explicit alternate was closed: the offsets of its
\* ForkIfFalse and of its Fork were set after other records had followed.
C20_Witness ==
    \E b \in 1..Len(blocks) :
        /\ Closed(blocks[b]) /\ blocks[b].explicitElse
        /\ getInstructionRecord(instructions,
               blocks[b].conditionInstructionIndex).params[2].v > 2
        /\ getInstructionRecord(instructions,
               blocks[b].jumpToEndInstructionIndex).params[1].v > 1

---------------------------------------------------------------------------
(* C21: the offsets of a block are fixed up in two passes.  Entering the   *)
(* block appends ForkIfFalse(condition, 1) and pushes the block.  The step *)
(* in which its alternate begins, by Else() or at the close, appends       *)
(* Fork(1) at the index f the list had as its length and sets the offset   *)
(* of the ForkIfFalse to (f + 1) minus its index.  The step that closes    *)
(* the block sets the offset of that Fork to n - f, n being the index the  *)
(* next instruction will get.  Once the block is closed no step changes    *)
(* either record again.                                                    *)
ForkIfFalseOf(ins, blk) == getInstructionRecord(ins, blk.conditionInstructionIndex)

ForkOf(ins, blk) == getInstructionRecord(ins, blk.jumpToEndInstructionIndex)

C21_TwoPassFixUp ==
    [][LET n == Len(instructions)
       IN  /\ Len(blocks') > Len(blocks) =>
                  LET blk == blocks'[Len(blocks')]
                  IN  /\ blk.conditionInstructionIndex = n
                      /\ ForkIfFalseOf(instructions', blk) =
                             InstructionRecord("ForkIfFalse",
                                               <<c_long(blk.condition), c_long(1)>>)
                      /\ scopeStack' = Append(scopeStack, Len(blocks'))
           /\ \A b \in 1..Len(blocks) :
                  LET old == blocks[b]
                      new == blocks'[b]
                  IN  /\ (~old.inElse /\ new.inElse) =>
                             /\ new.jumpToEndInstructionIndex = n
                             /\ ForkOf(instructions', new).op = "Fork"
                             /\ ForkIfFalseOf(instructions', new).params[2].v =
                                    (n + 1) - new.conditionInstructionIndex
                             /\ ~Closed(new) => ForkOf(instructions', new).params[1].v = 1
                      /\ (~Closed(old) /\ Closed(new)) =>
                             ForkOf(instructions', new).params[1].v =
                                 Len(instructions') - new.jumpToEndInstructionIndex
                      /\ Closed(old) =>
                             /\ new = old
                             /\ ForkIfFalseOf(instructions', old) =
                                    ForkIfFalseOf(instructions, old)
                             /\ ForkOf(instructions', old) = ForkOf(instructions, old)]_vars

\* A block opened inside another was closed first, without Else(), and the
\* outer block, which had records between its ForkIfFalse and its Fork,
\* was closed after it.
C21_Witness ==
    \E a, b \in 1..Len(blocks) :
        /\ Closed(blocks[a]) /\ Closed(blocks[b])
        /\ blocks[a].conditionInstructionIndex < blocks[b].conditionInstructionIndex
        /\ blocks[b].endIndex <= blocks[a].jumpToEndInstructionIndex
        /\ ForkIfFalseOf(instructions, blocks[a]).params[2].v > 2
        /\ last.op = "IfBlock.__exit__" /\ last.arg = a

---------------------------------------------------------------------------
(* C22: the scope stack holds exactly the blocks that were entered and not *)
(* yet left, in the order they were entered, so it is empty once every     *)
(* block has been left, by an error or not; entering a block pushes it,    *)
(* leaving it pops it, and Else() acts on the block on top of the stack,   *)
(* or raises and leaves the instruction list as it was when the stack is   *)
(* empty.                                                                  *)
OpenBlocks ==
    LET Open(b) == ~blocks[b].exited
    IN  SelectSeq([b \in 1..Len(blocks) |-> b], Open)

C22_StackIsOpenScopes ==
    /\ [](scopeStack = OpenBlocks)
    /\ [][/\ Len(blocks') > Len(blocks) => scopeStack' = Append(scopeStack, Len(blocks'))
          /\ \A b \in 1..Len(blocks) :
                 (~blocks[b].exited /\ blocks'[b].exited) =>
                     /\ scopeStack # <<>> /\ scopeStack[Len(scopeStack)] = b
                     /\ scopeStack' = SubSeq(scopeStack, 1, Len(scopeStack) - 1)
          /\ last'.op = "Else" =>
                 IF scopeStack = <<>>
                 THEN /\ last'.err = "RuntimeError: Else block called outside of If block"
                      /\ UNCHANGED <<instructions, blocks, scopeStack>>
                 ELSE /\ last'.arg = scopeStack[Len(scopeStack)]
                      /\ \A b \in 1..Len(blocks) :
                             b # last'.arg => blocks'[b] = blocks[b]]_vars

====
